---- MODULE Spec2Model ----
(***************************************************************************)
(* Supakeeper: the keep-alive engine (keeper.py), its configuration        *)
(* (config.py), the notifier (notifier.py) and the interval scheduler       *)
(* (scheduler.py) as one state machine.  The main thread's position is pc;   *)
(* every target of the current cycle has a probe record pr[i] that follows *)
(* _ping_project step by step.                                             *)
(***************************************************************************)
EXTENDS Integers, Sequences, FiniteSets, TLC

\* ------------------------------------------------------------------ bounds
MaxTargets == 2
MaxRetry == 2
MaxCalls == 2
MaxSignals == 1
MaxTime == 4

\* ------------------------------------------------------- program constants
MAX_WORKERS == 10
retry_delay == 30
INTERVAL_WARN_HOURS == 168
POLL_MINUTES == 1

None == "None"
NoProjectsText == "No projects configured"
IntervalWarnText == "Warning: Interval exceeds 168 hours (7 days)"
IntervalErrorText == "Interval hours must be positive"

VARIABLES
    projects,        \* Config.projects: sequence of ProjectConfig records
    retry_attempts,  \* Config.retry_attempts
    interval,        \* Config.interval_hours, in minutes
    webhook_url,     \* Config.webhook_url
    telegram,        \* the bot attributes of the configuration object, if it has them
    has_notifier,    \* SupaKeeper.notifier is not None
    pc,              \* position of the main thread
    caller,          \* who invoked the running cycle
    parallel,        \* the parallel argument of the running ping_all
    pool,            \* max_workers of the live ThreadPoolExecutor, 0 if none
    pr,              \* per target of the cycle: the state of its _ping_project
    results,         \* the results list of ping_all
    sent,            \* notifications dispatched by the current cycle
    retval,          \* what the last call returned
    clients,         \* SupaKeeper._clients: name -> handle
    created,         \* handles create_client has returned, per name
    budget,          \* calls of the public API still to come
    cycles,          \* cycles begun by the daemon so far
    running,         \* Scheduler._running
    next_run,        \* Scheduler._next_run
    job,             \* the schedule library's job: its next run time
    now,             \* wall clock, minutes
    signals,         \* termination signals handled so far
    sigcycle,        \* a signal was handled while the current cycle was in flight
    made,            \* the last ProjectConfig(...) call: its arguments and its outcome
    validated,       \* the calls of validate() so far and the list the last one returned
    log              \* the current cycle's log lines and notification dispatches, in order

cfgVars == <<projects, retry_attempts, interval, webhook_url, telegram, has_notifier>>
keeperVars == <<parallel, pool, pr, results, log, sent, clients, created>>
mainVars == <<pc, caller, retval, budget, cycles>>
schedVars == <<running, next_run, job, now, signals, sigcycle>>
callVars == <<made, validated>>
vars == <<cfgVars, keeperVars, mainVars, schedVars, callVars>>

\* --------------------------------------------------------------- config.py
Names == {"a", "b"}
\* Names that contain the text "No projects"
MarkedNames == {"No projects"}
AllNames == Names \cup MarkedNames
Tables == {None, "health"}
\* A URL is the sequence of its parts, the scheme first: "" is <<>>
Urls == << <<"https://", "a.supabase.co">>, <<"https://", "b.supabase.co">>,
          <<"https://", "c.supabase.co">> >>

\* ProjectConfig, as constructed for position i of the list
ProjectConfig(i, n, t, e) ==
    [name |-> n, url |-> Urls[((i - 1) % Len(Urls)) + 1], key |-> "key",
     table |-> t, enabled |-> e]

\* The fields of a project after an assignment has left it in the given shape:
\* well-formed, without URL, without key, or with an http:// URL
Shapes == {"ok", "no_url", "no_key", "http"}
ShapedProject(i, n, shape, e) ==
    [name |-> n,
     url |-> CASE shape = "no_url" -> <<>>
               [] shape = "http" -> <<"http://", Urls[((i - 1) % Len(Urls)) + 1][2]>>
               [] OTHER -> Urls[((i - 1) % Len(Urls)) + 1],
     key |-> IF shape = "no_key" THEN "" ELSE "key",
     table |-> None, enabled |-> e]

Targets == DOMAIN projects

\* ProjectConfig.__post_init__ without the test of the scheme
PostInitNoSchemeTest(p) ==
    IF p.url = <<>> THEN "URL is required"
    ELSE IF p.key = "" THEN "API key is required"
    ELSE ""

\* ProjectConfig.__post_init__ on the fields p: the text of the ValueError of
\* the first check that fails, "" when none does
PostInit(p) ==
    IF p.url = <<>> THEN "URL is required"
    ELSE IF p.key = "" THEN "API key is required"
    ELSE IF p.url[1] # "https://" THEN "URL must start with https://"
    ELSE ""

\* The arguments of a ProjectConfig(...) call.  table and enabled may be left
\* out: table is then None, and enabled is given as a flag and a value
UrlArgs == {<<>>, <<"http://", "a.supabase.co">>, <<"HTTPS://", "a.supabase.co">>,
            <<"https://", "a.supabase.co">>, <<"https://", "b.supabase.co">>}
KeyArgs == {"", "key"}
EnabledArgs == {[given |-> FALSE, value |-> FALSE], [given |-> TRUE, value |-> TRUE],
                [given |-> TRUE, value |-> FALSE]}
ProjectArgs ==
    [name : Names, url : UrlArgs, key : KeyArgs, table : Tables, enabled : EnabledArgs]

NoProject == [name |-> None, url |-> <<>>, key |-> "", table |-> None, enabled |-> FALSE]
NotMade == [called |-> FALSE,
            args |-> [name |-> None, url |-> <<>>, key |-> "", table |-> None,
                      enabled |-> [given |-> FALSE, value |-> FALSE]],
            raised |-> "", value |-> NoProject]

\* ProjectConfig(name, url, key[, table][, enabled]): the dataclass stores the
\* fields, enabled defaulting to True, and runs __post_init__, whose ValueError
\* leaves the constructor
NewProject(a) ==
    LET p == [name |-> a.name, url |-> a.url, key |-> a.key, table |-> a.table,
              enabled |-> IF a.enabled.given THEN a.enabled.value ELSE TRUE]
        e == PostInit(p) IN
    [called |-> TRUE, args |-> a, raised |-> e, value |-> IF e = "" THEN p ELSE NoProject]

\* The list Config.get_enabled_projects returns, as positions of the projects:
\* [p for p in self.projects if p.enabled]
EnabledList == SelectSeq([i \in Targets |-> i], LAMBDA i : projects[i].enabled)

\* A selection that keeps the disabled projects
GetAllProjects == Targets

\* Config.get_enabled_projects, as the positions of the enabled projects
GetEnabledProjects == {EnabledList[k] : k \in DOMAIN EnabledList}

RECURSIVE PostInitErrors(_, _)
\* ProjectConfig.__post_init__ over projects[i..]: the first check that fails raises
PostInitErrors(ps, i) ==
    IF i > Len(ps) THEN <<>>
    ELSE LET p == ps[i]
             e == IF p.url = <<>> THEN <<[text |-> "URL is required", project |-> p.name]>>
                  ELSE IF p.key = "" THEN <<[text |-> "API key is required", project |-> p.name]>>
                  ELSE IF p.url[1] # "https://"
                       THEN <<[text |-> "URL must start with https://", project |-> p.name]>>
                  ELSE <<>>
         IN e \o PostInitErrors(ps, i + 1)

\* A validate without the test for an empty project list
ValidateWithoutEmptyTest ==
    PostInitErrors(projects, 1)
    \o (IF interval <= 0 THEN <<[text |-> IntervalErrorText, project |-> None]>> ELSE <<>>)
    \o (IF interval > INTERVAL_WARN_HOURS * 60
        THEN <<[text |-> IntervalWarnText, project |-> None]>> ELSE <<>>)

\* Config.validate
Validate ==
    (IF Len(projects) = 0 THEN <<[text |-> NoProjectsText, project |-> None]>> ELSE <<>>)
    \o PostInitErrors(projects, 1)
    \o (IF interval <= 0 THEN <<[text |-> IntervalErrorText, project |-> None]>> ELSE <<>>)
    \o (IF interval > INTERVAL_WARN_HOURS * 60
        THEN <<[text |-> IntervalWarnText, project |-> None]>> ELSE <<>>)

\* An abort on any entry validate returns
AnyEntry(errors) == errors # <<>>

\* any("No projects" in e for e in errors): the text is found in the error for
\* an empty list, and in the error of a project whose name contains it
AnyNoProjects(errors) ==
    \E k \in DOMAIN errors :
        errors[k].text = NoProjectsText \/ errors[k].project \in MarkedNames

\* --------------------------------------------------------------- keeper.py
\* Python truth of an optional string
Truthy(s) == s # None /\ s # ""

\* The two bot attributes the keeper reads from its configuration object; the
\* Config dataclass declares neither
NoTelegram == [defined |-> FALSE, bot_token |-> None, chat_id |-> None]
Telegram(token, chat) == [defined |-> TRUE, bot_token |-> token, chat_id |-> chat]

\* Notifier.has_webhook, Notifier.has_telegram
HasWebhook == Truthy(webhook_url)
HasTelegram == Truthy(telegram.bot_token) /\ Truthy(telegram.chat_id)

\* has_notifications of SupaKeeper.__init__
HasNotifications == Truthy(webhook_url) \/ (Truthy(telegram.bot_token) /\ Truthy(telegram.chat_id))

\* SupaKeeper.__init__ reads config.telegram_bot_token: in the test of
\* has_notifications when webhook_url is empty, in the arguments of Notifier
\* when it is not; the read raises AttributeError when the attribute is missing
ConstructRaises ==
    IF Truthy(webhook_url) THEN HasNotifications /\ ~telegram.defined
    ELSE ~telegram.defined

\* The message of a PingResult: its fixed text and the values formatted into it
Message(text, table, status, n, err) ==
    [text |-> text, table |-> table, status |-> status, n |-> n, err |-> err]

\* PingResult; timed says whether response_time_ms was given, ms is its value
PingResult(name, success, message, timed, ms) ==
    [project_name |-> name, success |-> success, message |-> message, timed |-> timed,
     response_time_ms |-> ms]

NoResult == PingResult(None, FALSE, Message("", None, 0, 0, ""), FALSE, 0)
NoClient == [url |-> <<>>, key |-> "", id |-> 0]

\* The probe of a target that has not been started.  clock is the time, in
\* seconds, its thread has spent in _ping_project (the calls themselves take
\* none of it, the retry delays do); attempt_start is the clock when the
\* current attempt began; rest is what the REST GET of the current attempt came
\* to: 0 not made, -1 an exception, otherwise the status
IdleProbe ==
    [pc |-> "idle", thread |-> None, attempt |-> 0, tries |-> 0, sleeps |-> 0,
     clock |-> 0, start_time |-> 0, attempt_start |-> 0, miss |-> FALSE, rest |-> 0, client |-> NoClient, anyok |-> FALSE, calls |-> <<>>,
     err |-> "", result |-> NoResult]

RestStatuses == {200, 401, 403, 500}

\* A status test that takes any response for a live project
RestSuccessAnyStatus(status) == TRUE

\* response.status_code in (200, 401, 403)
RestSuccess(status) == status \in {200, 401, 403}

\* A chain whose table query does not return: it falls through to the next strategy
ChainOutcomesFallThrough(p) ==
    { [calls |-> (IF p.table # None /\ p.table # "" THEN <<"table">> ELSE <<>>)
                 \o <<"list_users">>, ok |-> TRUE,
       message |-> Message("Successfully queried auth.users table", None, 0, 0, ""),
       err |-> "", rest |-> 0] }

\* A chain in which an error of the admin listing or of the session check is
\* not swallowed: it ends the attempt
ChainOutcomesNotSwallowed(p) ==
    { [calls |-> <<"list_users">>, ok |-> TRUE,
       message |-> Message("Successfully queried auth.users table", None, 0, 0, ""),
       err |-> "", rest |-> 0],
      [calls |-> <<"list_users">>, ok |-> FALSE,
       message |-> Message("", None, 0, 0, ""), err |-> "list_users error", rest |-> 0] }

\* A chain whose session check reports the strategy that follows it
ChainOutcomesWrongMessage(p) ==
    { [calls |-> <<"list_users", "get_session">>, ok |-> TRUE,
       message |-> Message("Successfully pinged REST API", None, 200, 0, ""),
       err |-> "", rest |-> 0] }

\* A chain in which an error of the table query falls back to the admin listing
ChainOutcomesTableFallback(p) ==
    { [calls |-> <<"table">>, ok |-> TRUE,
       message |-> Message("Successfully queried table", p.table, 0, 0, ""), err |-> "",
       rest |-> 0],
      [calls |-> <<"table", "list_users">>, ok |-> TRUE,
       message |-> Message("Successfully queried auth.users table", None, 0, 0, ""),
       err |-> "", rest |-> 0] }

\* One pass of the strategy chain of _ping_project for project p: every way the
\* calls can turn out, with the calls made in order, and the message or the error
ChainOutcomes(p) ==
    IF p.table # None /\ p.table # ""
    THEN { [calls |-> <<"table">>, ok |-> TRUE,
            message |-> Message("Successfully queried table", p.table, 0, 0, ""), err |-> "",
            rest |-> 0],
           [calls |-> <<"table">>, ok |-> FALSE,
            message |-> Message("", None, 0, 0, ""), err |-> "table query error",
            rest |-> 0] }
    ELSE { [calls |-> <<"list_users">>, ok |-> TRUE,
            message |-> Message("Successfully queried auth.users table", None, 0, 0, ""),
            err |-> "", rest |-> 0],
           [calls |-> <<"list_users", "get_session">>, ok |-> TRUE,
            message |-> Message("Successfully checked auth session", None, 0, 0, ""),
            err |-> "", rest |-> 0],
           [calls |-> <<"list_users", "get_session", "rest_get">>, ok |-> FALSE,
            message |-> Message("", None, 0, 0, ""), err |-> "httpx error", rest |-> -1] }
         \cup
         { [calls |-> <<"list_users", "get_session", "rest_get">>, ok |-> RestSuccess(s),
            message |-> IF RestSuccess(s)
                        THEN Message("Successfully pinged REST API", None, s, 0, "")
                        ELSE Message("", None, 0, 0, ""),
            err |-> IF RestSuccess(s) THEN "" ELSE "All ping strategies failed",
            rest |-> s]
           : s \in RestStatuses }

\* elapsed_ms = (time.time() - start_time) * 1000
ElapsedMs(q) == (q.clock - q.start_time) * 1000

\* for attempt in range(retry_attempts): is there an attempt a
InRange(a) == a < retry_attempts

\* A retry test that is off by one: a delay is slept after the last attempt too
RetryRemainsOffByOne(a) == a < retry_attempts

\* A retry test that also consults the stop request of the signal handler
RetryRemainsUnlessStopped(a) == a < retry_attempts - 1 /\ signals = 0

\* if attempt < self.config.retry_attempts - 1: another attempt follows attempt a
RetryRemains(a) == a < retry_attempts - 1

\* The head of the retry loop for attempt a of target i, up to the cache test of
\* _get_client; a loop that is over falls through to the final return
EnterAttempt(q, i, a) ==
    IF InRange(a)
    THEN [q EXCEPT !.pc = "client", !.attempt = a, !.tries = @ + 1,
                   !.attempt_start = q.clock, !.rest = 0,
                   !.miss = (clients[projects[i].name] = NoClient), !.calls = <<>>,
                   !.err = ""]
    ELSE [q EXCEPT !.pc = "done", !.attempt = a,
                   !.result = PingResult(projects[i].name, FALSE,
                                  Message("Unexpected error in ping logic", None, 0, 0, ""),
                                  FALSE, 0)]

\* The except branch of attempt q.attempt with error e: sleep and retry, or give up
Except(q, i, e) ==
    IF RetryRemains(q.attempt)
    THEN [q EXCEPT !.pc = "sleep", !.err = e]
    ELSE [q EXCEPT !.pc = "done", !.err = e,
                   !.result = PingResult(projects[i].name, FALSE,
                                  Message("Failed after attempts", None, 0, retry_attempts, e),
                                  TRUE, ElapsedMs(q))]

\* _ping_project is entered: the debug line, start_time, and the first pass of
\* the loop head
LoopStart(i) ==
    /\ pr[i].pc = "started"
    /\ pr' = [pr EXCEPT ![i] = EnterAttempt([@ EXCEPT !.start_time = pr[i].clock], i, 0)]
    /\ UNCHANGED <<callVars, cfgVars, mainVars, schedVars, parallel, pool, results, log, sent,
                   clients, created>>

\* A _get_client that leaves an entry in the cache when create_client raises
GetClientKeepsFailure(i) ==
    /\ pr[i].pc = "client"
    /\ LET n == projects[i].name IN
       \/ /\ pr[i].miss
          /\ created' = [created EXCEPT ![n] = @ + 1]
          /\ clients' = [clients EXCEPT ![n] =
                            [url |-> projects[i].url, key |-> projects[i].key,
                             id |-> created[n] + 1]]
          /\ pr' = [pr EXCEPT ![i] = [@ EXCEPT !.pc = "chain", !.client = clients'[n]]]
       \/ /\ pr[i].miss
          /\ pr' = [pr EXCEPT ![i] = Except(@, i, "create_client error")]
          /\ clients' = [clients EXCEPT ![n] =
                            [url |-> projects[i].url, key |-> projects[i].key, id |-> -1]]
          /\ UNCHANGED created
       \/ /\ ~pr[i].miss
          /\ pr' = [pr EXCEPT ![i] = [@ EXCEPT !.pc = "chain", !.client = clients[n]]]
          /\ UNCHANGED <<clients, created>>
    /\ UNCHANGED <<callVars, cfgVars, mainVars, schedVars, parallel, pool, results, log, sent>>

\* _get_client after its cache test: create and store the handle on a miss, then
\* read the cache; create_client may raise
GetClient(i) ==
    /\ pr[i].pc = "client"
    /\ LET n == projects[i].name IN
       \/ /\ pr[i].miss
          /\ created' = [created EXCEPT ![n] = @ + 1]
          /\ clients' = [clients EXCEPT ![n] =
                            [url |-> projects[i].url, key |-> projects[i].key,
                             id |-> created[n] + 1]]
          /\ pr' = [pr EXCEPT ![i] = [@ EXCEPT !.pc = "chain", !.client = clients'[n]]]
       \/ /\ pr[i].miss
          /\ pr' = [pr EXCEPT ![i] = Except(@, i, "create_client error")]
          /\ UNCHANGED <<clients, created>>
       \/ /\ ~pr[i].miss
          /\ pr' = [pr EXCEPT ![i] = [@ EXCEPT !.pc = "chain", !.client = clients[n]]]
          /\ UNCHANGED <<clients, created>>
    /\ UNCHANGED <<callVars, cfgVars, mainVars, schedVars, parallel, pool, results, log, sent>>

\* The strategy chain of one attempt, and the return or the except branch after it
Chain(i) ==
    /\ pr[i].pc = "chain"
    /\ \E o \in ChainOutcomes(projects[i]) :
          LET q == [pr[i] EXCEPT !.calls = o.calls, !.anyok = @ \/ o.ok,
                                 !.rest = o.rest] IN
          pr' = [pr EXCEPT ![i] =
                    IF o.ok
                    THEN [q EXCEPT !.pc = "done",
                                   !.result = PingResult(projects[i].name, TRUE,
                                                         o.message, TRUE, ElapsedMs(q))]
                    ELSE Except(q, i, o.err)]
    /\ UNCHANGED <<callVars, cfgVars, mainVars, schedVars, parallel, pool, results, log, sent,
                   clients, created>>

\* A retry that starts the next attempt without waiting for the delay
SleepCutShort(i) ==
    /\ pr[i].pc = "sleep"
    /\ pr' = [pr EXCEPT ![i] = EnterAttempt([@ EXCEPT !.sleeps = @ + 1], i, pr[i].attempt + 1)]
    /\ UNCHANGED <<callVars, cfgVars, mainVars, schedVars, parallel, pool, results, log, sent,
                   clients, created>>

\* time.sleep(retry_delay), then the next attempt
Sleep(i) ==
    /\ pr[i].pc = "sleep"
    /\ pr' = [pr EXCEPT ![i] =
                 EnterAttempt([@ EXCEPT !.sleeps = @ + 1, !.clock = @ + retry_delay], i,
                              pr[i].attempt + 1)]
    /\ UNCHANGED <<callVars, cfgVars, mainVars, schedVars, parallel, pool, results, log, sent,
                   clients, created>>

\* A probe is in flight from the moment a thread starts it until it returns
InFlight == {i \in Targets : pr[i].pc \in {"started", "client", "chain", "sleep"}}
Queued == {i \in Targets : pr[i].pc = "queued"}
\* Only the probes that have finished by now count as outstanding
UncollectedFinished == {i \in Targets : pr[i].pc = "done"}

\* The submitted probes whose result the main thread has not taken yet
Uncollected == {i \in Targets : pr[i].pc \notin {"idle", "collected"}}

Min(a, b) == IF a < b THEN a ELSE b

\* A pool of a single worker
MaxWorkersOne(n) == 1

\* A pool with a worker for every project, however many
MaxWorkersUncapped(n) == n

\* max_workers=min(len(projects), 10)
MaxWorkersFor(n) == Min(n, MAX_WORKERS)

\* A pool thread is free to take the next submitted probe
WorkerFree == Cardinality(InFlight) < pool

\* A pool thread takes the oldest submitted probe off the work queue and starts
\* _ping_project
WorkerStart(i) ==
    /\ pc = "as_completed"
    /\ pr[i].pc = "queued"
    /\ \A j \in Queued : i <= j
    /\ WorkerFree
    /\ pr' = [pr EXCEPT ![i] = [@ EXCEPT !.pc = "started", !.thread = "pool"]]
    /\ UNCHANGED <<callVars, cfgVars, mainVars, schedVars, parallel, pool, results, log, sent,
                   clients, created>>

\* The sequential branch of ping_all: the main thread starts the next probe inline
SeqStart(i) ==
    /\ pc = "sequential"
    /\ pr[i].pc = "queued"
    /\ \A j \in Queued : i <= j
    /\ InFlight = {}
    /\ \A j \in Targets : pr[j].pc # "done"
    /\ pr' = [pr EXCEPT ![i] = [@ EXCEPT !.pc = "started", !.thread = "main"]]
    /\ UNCHANGED <<callVars, cfgVars, mainVars, schedVars, parallel, pool, results, log, sent,
                   clients, created>>

\* ------------------------------------------------------ ping_all, run_once
CountSuccess(res) == Len(SelectSeq(res, LAMBDA r : r.success))

\* A summary whose second count is the number of all outcomes
SummaryFailedIsTotal(res) == <<CountSuccess(res), Len(res)>>

\* (success_count, failed_count) of run_once
Summary(res) == <<CountSuccess(res), Len(res) - CountSuccess(res)>>

\* The one-shot run's exit code for a summary: 1 if failed > 0 else 0
ExitCode(summary) == IF summary[2] > 0 THEN 1 ELSE 0

\* The one-shot runs of the entry points: the run command with --once, and
\* main() without --daemon
Entries == {"cli_once", "main_once"}

\* The ping command calls keeper.ping_all() itself, as a caller holding a keeper does
Direct == {"ping_all", "cli_ping"}

\* The callers whose exceptions end the process: the one-shot runs and the
\* ping command, each with an `except Exception` around its body
Exiting == Entries \cup {"cli_ping"}

\* raise typer.Exit(code) inside the try block of the run command.  Exit is a
\* RuntimeError: the `except Exception` clause of the same try catches it,
\* prints it as an error and raises Exit(1)
CaughtExit(code) == 1

NoReturn == [kind |-> None, results |-> <<>>, summary |-> <<0, 0>>, exit |-> -1]

\* ------------------------------------------------------------- notifier.py
\* The channels of the notifier, in the order the send methods use them
Channels ==
    (IF HasWebhook THEN <<"webhook">> ELSE <<>>)
    \o (IF HasTelegram THEN <<"telegram">> ELSE <<>>)

\* How one delivery can turn out: an accepting status, a rejecting status, or
\* an exception of the HTTP client (a timeout, a refused connection)
DeliveryStatuses == {"ok", "rejected", "raised"}

\* Every way the deliveries of one notification can turn out, per channel
Deliveries == [DOMAIN Channels -> DeliveryStatuses]

\* Send methods without the except clause: an exception of the HTTP client escapes
SendOutcomeUncaught(status) == [returned |-> status = "ok", raises |-> status = "raised"]

\* _send_webhook, _send_telegram on a delivery that turns out as status: True
\* for an accepting status, False otherwise; the except clause catches every
\* exception
SendOutcome(status) == [returned |-> status = "ok", raises |-> FALSE]

\* _build_success_message, _build_telegram_success_message format
\* response_time_ms of every outcome with :.0f, which raises TypeError on None;
\* the failure messages format only the name and the message
BuildRaises(kind, outcomes) ==
    /\ kind = "success"
    /\ Channels # <<>>
    /\ \E k \in DOMAIN outcomes : ~outcomes[k].timed

\* send_success_notification, send_failure_notification: one delivery on every
\* channel, in order, each turning out as d says
Notification(kind, outcomes, d) ==
    [kind |-> kind, outcomes |-> outcomes,
     deliveries |-> [k \in DOMAIN Channels |->
                        [channel |-> Channels[k], status |-> d[k],
                         returned |-> SendOutcome(d[k]).returned]]]

\* The notification _send_notification asks for: its kind and its outcomes
NotificationKind(res) == IF Len(res) - CountSuccess(res) > 0 THEN "failure" ELSE "success"
NotificationOutcomes(res) ==
    IF Len(res) - CountSuccess(res) > 0 THEN SelectSeq(res, LAMBDA r : ~r.success) ELSE res

\* An exception leaves _send_notification
NotifyRaises(res, d) ==
    /\ has_notifier
    /\ \/ BuildRaises(NotificationKind(res), NotificationOutcomes(res))
       \/ \E k \in DOMAIN Channels : SendOutcome(d[k]).raises

\* A _send_notification without its else: the success notification always goes out
SendNotificationNoElse(res, d) ==
    IF ~has_notifier THEN <<>>
    ELSE (IF Len(res) - CountSuccess(res) > 0
          THEN <<Notification("failure", SelectSeq(res, LAMBDA r : ~r.success), d)>>
          ELSE <<>>)
         \o <<Notification("success", res, d)>>

\* _send_notification: the notifications it dispatches for the results res
\* when the deliveries turn out as d
SendNotification(res, d) ==
    IF ~has_notifier THEN <<>>
    ELSE IF Len(res) - CountSuccess(res) > 0
         THEN <<Notification("failure", SelectSeq(res, LAMBDA r : ~r.success), d)>>
         ELSE <<Notification("success", res, d)>>

\* One line of the log, or one dispatch of the notifier
Event(e, name, ok) == [event |-> e, project |-> name, ok |-> ok]

\* run_once logs every entry validate() returned, as an error
ValidationLog(callr) ==
    IF callr \in Direct THEN <<>>
    ELSE [k \in DOMAIN Validate |-> Event("validation", Validate[k].project, FALSE)]

\* _log_result: logger.success for a success outcome, logger.error otherwise
LogResult(r) == <<Event("result", r.project_name, r.success)>>

\* The dispatches of the notifications in notes
NotifyLog(notes) == [k \in DOMAIN notes |-> Event("notification", None, notes[k].kind = "success")]

\* print_status of run_once; ping_all called on its own prints none
StatusLog(callr, res) ==
    IF callr \in Direct THEN <<>>
    ELSE <<Event("status", None, Len(res) - CountSuccess(res) = 0)>>

\* An end of cycle that prints the status before the notification goes out
CycleEndLogStatusFirst(callr, res, notes) == StatusLog(callr, res) \o NotifyLog(notes)

\* What the end of a cycle adds: _send_notification at the end of ping_all,
\* then print_status after ping_all has returned
CycleEndLog(callr, res, notes) == NotifyLog(notes) \o StatusLog(callr, res)

\* ping_all has returned res: what its caller does with it, up to the caller's
\* own return.  run_once returns the summary; _run_job also sets _next_run; a
\* job run by run_pending is rescheduled by the schedule library
Return(callr, res) ==
    CASE callr = "ping_all" ->
            /\ pc' = "idle"
            /\ retval' = [kind |-> "ping_all", results |-> res, summary |-> <<0, 0>>,
                          exit |-> -1]
            /\ UNCHANGED <<next_run, job>>
      [] callr = "run_once" ->
            /\ pc' = "idle"
            /\ retval' = [kind |-> "run_once", results |-> <<>>, summary |-> Summary(res),
                          exit |-> ExitCode(Summary(res))]
            /\ UNCHANGED <<next_run, job>>
      [] callr = "main_once" ->
            /\ pc' = "exited"
            /\ retval' = [kind |-> "run_once", results |-> <<>>, summary |-> Summary(res),
                          exit |-> ExitCode(Summary(res))]
            /\ UNCHANGED <<next_run, job>>
      [] callr = "cli_once" ->
            /\ pc' = "exited"
            /\ retval' = [kind |-> "run_once", results |-> <<>>, summary |-> Summary(res),
                          exit |-> CaughtExit(ExitCode(Summary(res)))]
            /\ UNCHANGED <<next_run, job>>
      [] callr = "cli_ping" ->
            /\ pc' = "exited"
            /\ retval' = [kind |-> "ping_all", results |-> res, summary |-> Summary(res),
                          exit |-> IF Summary(res)[2] > 0 THEN CaughtExit(1) ELSE 0]
            /\ UNCHANGED <<next_run, job>>
      [] callr = "immediate" ->
            /\ pc' = "schedule"
            /\ retval' = [kind |-> "run_once", results |-> <<>>, summary |-> Summary(res),
                          exit |-> -1]
            /\ next_run' = now + interval
            /\ UNCHANGED job
      [] callr = "scheduled" ->
            /\ pc' = "poll_sleep"
            /\ retval' = [kind |-> "run_once", results |-> <<>>, summary |-> Summary(res),
                          exit |-> -1]
            /\ next_run' = now + interval
            /\ job' = now + interval

\* A ping_all without the early return: with nothing enabled it goes on to the
\* notification with an empty list of results
PingAllNoEarlyReturn(callr, par) ==
    LET en == GetEnabledProjects IN
    /\ parallel' = par
    /\ results' = <<>>
    /\ log' = ValidationLog(callr)
    /\ pr' = [i \in Targets |->
                IF i \in en THEN [IdleProbe EXCEPT !.pc = "queued"] ELSE IdleProbe]
    /\ IF par /\ Cardinality(en) > 1
       THEN /\ pool' = MaxWorkersFor(Cardinality(en))
            /\ pc' = "as_completed"
       ELSE /\ pool' = 0
            /\ pc' = IF en = {} THEN "notify" ELSE "sequential"
    /\ retval' = NoReturn
    /\ UNCHANGED <<next_run, job>>

\* ping_all up to the submission of the probes, or its early return
PingAll(callr, par) ==
    LET en == GetEnabledProjects IN
    /\ parallel' = par
    /\ results' = <<>>
    /\ IF en = {}
       THEN /\ pr' = [i \in Targets |-> IdleProbe]
            /\ pool' = 0
            /\ log' = ValidationLog(callr) \o <<Event("no_enabled", None, FALSE)>>
                       \o StatusLog(callr, <<>>)
            /\ Return(callr, <<>>)
       ELSE /\ log' = ValidationLog(callr)
            /\ pr' = [i \in Targets |->
                        IF i \in en THEN [IdleProbe EXCEPT !.pc = "queued"] ELSE IdleProbe]
            /\ IF par /\ Cardinality(en) > 1
               THEN /\ pool' = MaxWorkersFor(Cardinality(en))
                    /\ pc' = "as_completed"
               ELSE /\ pool' = 0
                    /\ pc' = "sequential"
            /\ retval' = NoReturn
            /\ UNCHANGED <<next_run, job>>

\* run_once up to the submission of the probes, or its early return
RunOnce(callr) ==
    IF AnyNoProjects(Validate)
    THEN /\ pr' = [i \in Targets |-> IdleProbe]
         /\ results' = <<>>
         /\ log' = ValidationLog(callr)
         /\ UNCHANGED <<parallel, pool>>
         /\ Return(callr, <<>>)
    ELSE PingAll(callr, TRUE)

\* keeper.ping_all(parallel=par) is called
CallPingAll(par) ==
    /\ pc = "idle"
    /\ budget > 0
    /\ budget' = budget - 1
    /\ caller' = "ping_all"
    /\ sent' = <<>>
    /\ PingAll("ping_all", par)
    /\ UNCHANGED <<callVars, cfgVars, clients, created, cycles, running, now, signals, sigcycle>>

\* keeper.run_once() (Scheduler.run_once) is called
CallRunOnce ==
    /\ pc = "idle"
    /\ budget > 0
    /\ budget' = budget - 1
    /\ caller' = "run_once"
    /\ sent' = <<>>
    /\ RunOnce("run_once")
    /\ UNCHANGED <<callVars, cfgVars, clients, created, cycles, running, now, signals, sigcycle>>

\* The main thread takes a finished probe: results.append(result), _log_result;
\* after the last one the pool is shut down
Collect(i) ==
    /\ pc \in {"as_completed", "sequential"}
    /\ pr[i].pc = "done"
    /\ results' = Append(results, pr[i].result)
    /\ log' = log \o LogResult(pr[i].result)
    /\ pr' = [pr EXCEPT ![i].pc = "collected"]
    /\ IF Uncollected = {i}
       THEN pc' = "notify" /\ pool' = 0
       ELSE UNCHANGED <<pc, pool>>
    /\ UNCHANGED <<callVars, cfgVars, schedVars, parallel, sent, clients, created,
                   caller, retval, budget, cycles>>

\* The end of ping_all: _send_notification(results), return results, and the
\* caller's use of them; an exception that leaves _send_notification leaves
\* the cycle too
PingAllEnd ==
    /\ pc = "notify"
    /\ \E d \in Deliveries :
          IF NotifyRaises(results, d)
          THEN /\ pc' = IF caller \in Exiting THEN "exited" ELSE "raised"
               /\ sent' = <<>>
               /\ retval' = [kind |-> "raised", results |-> <<>>, summary |-> <<0, 0>>,
                             exit |-> IF caller \in Exiting THEN 1 ELSE -1]
               /\ UNCHANGED <<next_run, job, log>>
          ELSE /\ sent' = SendNotification(results, d)
               /\ log' = log \o CycleEndLog(caller, results, sent')
               /\ Return(caller, results)
    /\ UNCHANGED <<callVars, cfgVars, parallel, pool, pr, results, clients, created,
                   caller, budget, cycles, running, now, signals, sigcycle>>

\* SupaKeeper(config): the notifier is built when a channel is configured, and
\* _clients starts empty; an AttributeError leaves the constructor
Construct ==
    /\ pc = "new"
    /\ IF ConstructRaises
       THEN /\ pc' = "raised"
            /\ retval' = [kind |-> "AttributeError", results |-> <<>>, summary |-> <<0, 0>>,
                          exit |-> -1]
            /\ UNCHANGED <<has_notifier, clients>>
       ELSE /\ pc' = "idle"
            /\ has_notifier' = HasNotifications
            /\ clients' = [n \in AllNames |-> NoClient]
            /\ UNCHANGED retval
    /\ UNCHANGED <<callVars, projects, retry_attempts, interval, webhook_url, telegram,
                   parallel, pool, pr, results, log, sent, created, caller, budget, cycles,
                   schedVars>>

\* A project is constructed from the arguments a; when the constructor returns,
\* the project is appended to the projects of the configuration
NewProjectConfig(a) ==
    /\ pc = "idle"
    /\ Len(projects) < MaxTargets
    /\ made' = NewProject(a)
    /\ projects' = IF made'.raised = "" THEN Append(projects, made'.value) ELSE projects
    /\ pr' = [i \in DOMAIN projects' |-> IdleProbe]
    /\ UNCHANGED <<validated, retry_attempts, interval, webhook_url, telegram, has_notifier,
                   parallel, pool, results, log, sent, clients, created, mainVars, schedVars>>

\* A validate() that keeps its list between calls
ValidateAccumulates(prev) == prev \o Validate

\* The list a validate() call returns when the call before it returned prev:
\* the list is created empty in every call
ValidateResult(prev) == Validate

\* config.validate() is called between two calls of the keeper: it assigns
\* nothing on the configuration or on its projects
CallValidate ==
    /\ pc \in {"new", "idle"}
    /\ validated.calls < MaxCalls
    /\ validated' = [calls |-> validated.calls + 1, list |-> ValidateResult(validated.list)]
    /\ UNCHANGED <<made, cfgVars, keeperVars, mainVars, schedVars>>

\* ------------------------------------------------------- cli.py, main.py
\* The one-shot run of an entry point on the configuration it has loaded, up to
\* create_scheduler: validate(), and exit code 1 when it reports "No projects"
EntryStart(e) ==
    /\ pc = "new"
    /\ caller' = e
    /\ IF AnyNoProjects(Validate)
       THEN /\ pc' = "exited"
            /\ retval' = [kind |-> "no_projects", results |-> <<>>, summary |-> <<0, 0>>,
                          exit |-> 1]
       ELSE /\ pc' = "create"
            /\ UNCHANGED retval
    /\ UNCHANGED <<callVars, cfgVars, keeperVars, schedVars, budget, cycles>>

\* create_scheduler(cfg), then scheduler.run_once() up to the submission of
\* the probes; an AttributeError of the constructor reaches the entry point's
\* `except Exception`, which exits with 1
CreateScheduler ==
    /\ pc = "create"
    /\ IF ConstructRaises
       THEN /\ pc' = "exited"
            /\ retval' = [kind |-> "AttributeError", results |-> <<>>,
                          summary |-> <<0, 0>>, exit |-> 1]
            /\ UNCHANGED <<has_notifier, keeperVars, next_run, job>>
       ELSE /\ has_notifier' = HasNotifications
            /\ sent' = <<>>
            /\ RunOnce(caller)
            /\ UNCHANGED <<clients, created>>
    /\ UNCHANGED <<callVars, projects, retry_attempts, interval, webhook_url, telegram,
                   caller, budget, cycles, running, now, signals, sigcycle>>

\* str.lower() on the names and options in use
Lower(s) == CASE s = "A" -> "a" [] s = "B" -> "b" [] OTHER -> s

\* The values of --project: absent, empty, the names in either case, and a
\* name no project carries
ProjectOptions == {None, "", "a", "A", "b", "B", "zz"}

\* [p for p in cfg.projects if p.name.lower() == project.lower()]
Matching(opt) == SelectSeq(projects, LAMBDA p : Lower(p.name) = Lower(opt))

\* The ping command on the configuration it has loaded, up to SupaKeeper(cfg):
\* with --project it assigns the matching projects to cfg.projects, and exits
\* with 1 when there is none
CliPing(opt) ==
    /\ pc = "new"
    /\ caller' = "cli_ping"
    /\ IF Truthy(opt) /\ Matching(opt) = <<>>
       THEN /\ pc' = "exited"
            /\ retval' = [kind |-> "not_found", results |-> <<>>, summary |-> <<0, 0>>,
                          exit |-> CaughtExit(1)]
            /\ UNCHANGED <<projects, pr>>
       ELSE /\ pc' = "ping_create"
            /\ projects' = IF Truthy(opt) THEN Matching(opt) ELSE projects
            /\ pr' = [i \in DOMAIN projects' |-> IdleProbe]
            /\ UNCHANGED retval
    /\ UNCHANGED <<callVars, retry_attempts, interval, webhook_url, telegram, has_notifier,
                   parallel, pool, results, log, sent, clients, created, schedVars, budget,
                   cycles>>

\* SupaKeeper(cfg) and keeper.ping_all() of the ping command, up to the
\* submission of the probes
CliPingCreate ==
    /\ pc = "ping_create"
    /\ IF ConstructRaises
       THEN /\ pc' = "exited"
            /\ retval' = [kind |-> "AttributeError", results |-> <<>>,
                          summary |-> <<0, 0>>, exit |-> 1]
            /\ UNCHANGED <<has_notifier, keeperVars, next_run, job>>
       ELSE /\ has_notifier' = HasNotifications
            /\ sent' = <<>>
            /\ PingAll(caller, TRUE)
            /\ UNCHANGED <<clients, created>>
    /\ UNCHANGED <<callVars, projects, retry_attempts, interval, webhook_url, telegram,
                   caller, budget, cycles, running, now, signals, sigcycle>>

\* get_status: the counts it reports, read from the configuration
GetStatus == <<Len(projects), Cardinality(GetEnabledProjects)>>

\* The status command: SupaKeeper(cfg), get_status(), and the table printed
CliStatus ==
    /\ pc = "new"
    /\ caller' = "cli_status"
    /\ pc' = "exited"
    /\ IF ConstructRaises
       THEN /\ retval' = [kind |-> "AttributeError", results |-> <<>>,
                          summary |-> <<0, 0>>, exit |-> 1]
            /\ UNCHANGED has_notifier
       ELSE /\ retval' = [kind |-> "status", results |-> <<>>, summary |-> GetStatus,
                          exit |-> 0]
            /\ has_notifier' = HasNotifications
    /\ UNCHANGED <<callVars, projects, retry_attempts, interval, webhook_url, telegram,
                   keeperVars, schedVars, budget, cycles>>

\* any("Warning" not in e for e in errors)
HasErrors(errors) == \E k \in DOMAIN errors : errors[k].text # IntervalWarnText

\* The validate command: cfg.validate(), then typer.Exit inside the try block
CliValidate ==
    /\ pc = "new"
    /\ caller' = "cli_validate"
    /\ pc' = "exited"
    /\ validated' = [calls |-> validated.calls + 1, list |-> ValidateResult(validated.list)]
    /\ retval' = [kind |-> "validate", results |-> <<>>, summary |-> <<0, Len(Validate)>>,
                  exit |-> CaughtExit(IF HasErrors(Validate) THEN 1 ELSE 0)]
    /\ UNCHANGED <<made, cfgVars, keeperVars, schedVars, budget, cycles>>

\* ------------------------------------------------------------ scheduler.py
\* A cycle is in flight from its first statement until run_once has returned
CycleInFlight == pc \in {"as_completed", "sequential", "notify"}

\* Scheduler._signal_handler: a termination signal is handled (on the main
\* thread, between any two of its steps)
SignalHandler ==
    /\ signals < MaxSignals
    /\ pc # "idle"
    /\ signals' = signals + 1
    /\ running' = FALSE
    /\ sigcycle' = (sigcycle \/ CycleInFlight)
    /\ UNCHANGED <<callVars, cfgVars, keeperVars, mainVars, next_run, job, now>>

\* _run_job up to the submission of the probes
RunJob(callr) ==
    /\ caller' = callr
    /\ cycles' = cycles + 1
    /\ sent' = <<>>
    /\ sigcycle' = FALSE
    /\ RunOnce(callr)

\* scheduler.run_daemon(run_immediately=imm) is called: with imm, _run_job
CallRunDaemon(imm) ==
    /\ pc = "idle"
    /\ budget > 0
    /\ budget' = budget - 1
    /\ IF imm
       THEN RunJob("immediate")
       ELSE /\ pc' = "schedule"
            /\ caller' = "run_daemon"
            /\ retval' = NoReturn
            /\ UNCHANGED <<keeperVars, cycles, next_run, job, sigcycle>>
    /\ UNCHANGED <<callVars, cfgVars, clients, created, running, now, signals>>

\* schedule.every(interval_hours).hours.do(self._run_job); self._running = True
Schedule ==
    /\ pc = "schedule"
    /\ job' = now + interval
    /\ running' = TRUE
    /\ pc' = "loop_test"
    /\ UNCHANGED <<callVars, cfgVars, keeperVars, caller, retval, budget, cycles,
                   next_run, now, signals, sigcycle>>

\* A loop that also ends once a cycle has run
WhileRunningFirstCycle == running /\ cycles = 0

\* while self._running
WhileRunning == running

\* The exit code after run_daemon has returned: main() returns 0, and the run
\* command ends without raising Exit
DaemonExit == 0

\* The test of the wait loop; when it fails run_daemon logs and returns to the
\* entry point, which exits
LoopTest ==
    /\ pc = "loop_test"
    /\ IF WhileRunning
       THEN pc' = "run_pending" /\ UNCHANGED retval
       ELSE /\ pc' = "idle"
            /\ retval' = [kind |-> "run_daemon", results |-> <<>>, summary |-> <<0, 0>>,
                          exit |-> DaemonExit]
    /\ UNCHANGED <<callVars, cfgVars, keeperVars, schedVars, caller, budget, cycles>>

\* A job that is due at every poll
JobDueAlways == TRUE

\* The schedule library's test that the job is due
JobDue == job <= now

\* schedule.run_pending(): runs _run_job when the job is due
RunPending ==
    /\ pc = "run_pending"
    /\ IF JobDue
       THEN RunJob("scheduled")
       ELSE /\ pc' = "poll_sleep"
            /\ UNCHANGED <<keeperVars, caller, retval, cycles, next_run, job, sigcycle>>
    /\ UNCHANGED <<callVars, cfgVars, clients, created, budget, running, now, signals>>

\* time.sleep(60)
PollSleep ==
    /\ pc = "poll_sleep"
    /\ now < MaxTime
    /\ now' = now + POLL_MINUTES
    /\ pc' = "loop_test"
    /\ UNCHANGED <<callVars, cfgVars, keeperVars, caller, retval, budget, cycles,
                   running, next_run, job, signals, sigcycle>>

\* ------------------------------------------------------------------ inits
ProjectLists(lens) ==
    UNION { { [i \in 1..n |-> ProjectConfig(i, f[i][1], f[i][2], f[i][3])] :
              f \in [1..n -> Names \X Tables \X BOOLEAN] } : n \in lens }

\* Names are interchangeable: the first project is the one called "a"
Canonical(ps) == Len(ps) > 0 => ps[1].name = "a"

InitKeeper ==
    /\ made = NotMade
    /\ validated = [calls |-> 0, list |-> <<>>]
    /\ caller = None
    /\ parallel = TRUE
    /\ pool = 0
    /\ pr = [i \in Targets |-> IdleProbe]
    /\ results = <<>>
    /\ log = <<>>
    /\ sent = <<>>
    /\ retval = NoReturn
    /\ clients = [n \in AllNames |-> NoClient]
    /\ created = [n \in AllNames |-> 0]
    /\ cycles = 0
    /\ running = FALSE
    /\ next_run = -1
    /\ job = -1
    /\ now = 0
    /\ signals = 0
    /\ sigcycle = FALSE

\* A keeper that has been constructed
InitState ==
    /\ pc = "idle"
    /\ InitKeeper

\* A keeper constructed from a configuration without a notification channel
NoChannel ==
    /\ webhook_url = None
    /\ telegram = Telegram(None, None)
    /\ has_notifier = HasNotifications

\* The retry counts of the specifications that are about whole cycles
CycleRetries == {0, 1}

\* One call of ping_all or run_once on any configuration of up to MaxTargets
\* projects; a webhook is configured only with up to two projects
Init ==
    /\ projects \in {ps \in ProjectLists(0..MaxTargets) : Canonical(ps)}
    /\ retry_attempts \in CycleRetries
    /\ interval = 2
    /\ webhook_url \in {None, "hook"}
    /\ Len(projects) > 2 => webhook_url = None
    /\ telegram = Telegram(None, None)
    /\ has_notifier = HasNotifications
    /\ budget = 1
    /\ InitState

Probe ==
    \E i \in Targets : LoopStart(i) \/ GetClient(i) \/ Chain(i) \/ Sleep(i)

Cycle ==
    \/ \E i \in Targets : WorkerStart(i)
    \/ \E i \in Targets : SeqStart(i)
    \/ Probe
    \/ \E i \in Targets : Collect(i)
    \/ PingAllEnd

Next ==
    \/ \E par \in BOOLEAN : CallPingAll(par)
    \/ CallRunOnce
    \/ Cycle

Spec == Init /\ [][Next]_vars

\* Calls of ping_all on one enabled target, with every retry count
InitPing ==
    /\ projects \in {ps \in ProjectLists({1}) : Canonical(ps) /\ ps[1].enabled}
    /\ retry_attempts \in 0..MaxRetry
    /\ interval = 2
    /\ NoChannel
    /\ budget = MaxCalls
    /\ InitState

NextPing ==
    \/ \E par \in BOOLEAN : CallPingAll(par)
    \/ \E i \in Targets : SeqStart(i)
    \/ Probe
    \/ \E i \in Targets : Collect(i)
    \/ PingAllEnd

SpecPing == InitPing /\ [][NextPing]_vars

\* run_daemon, with and without the immediate first cycle: one project with
\* every retry count, or two projects with a single attempt each
InitDaemon ==
    /\ projects \in {ps \in ProjectLists(1..2) : Canonical(ps)}
    /\ retry_attempts \in 1..MaxRetry
    /\ (\A i \in Targets : projects[i].enabled) /\ Len(projects) > 1 => retry_attempts = 1
    /\ interval = 2
    /\ NoChannel
    /\ budget = 1
    /\ InitState

NextDaemon ==
    \/ \E imm \in BOOLEAN : CallRunDaemon(imm)
    \/ Schedule
    \/ LoopTest
    \/ RunPending
    \/ PollSleep
    \/ SignalHandler
    \/ Cycle

SpecDaemon == InitDaemon /\ [][NextDaemon]_vars

\* The daemon on one or two enabled targets with a single attempt each.  The
\* main thread and the pool's workers keep running: run_daemon, the cycle it
\* runs and the probes take their next step whenever they have one
InitSchedule ==
    /\ projects \in {ps \in ProjectLists(1..2) :
                        /\ Canonical(ps)
                        /\ \A i \in DOMAIN ps : ps[i].enabled /\ ps[i].table = None
                        /\ Len(ps) > 1 => ps[2].name = "b"}
    /\ retry_attempts = 1
    /\ interval = 2
    /\ NoChannel
    /\ budget = 1
    /\ InitState

Running == Schedule \/ LoopTest \/ RunPending \/ PollSleep \/ Cycle

SpecSchedule == InitSchedule /\ [][NextDaemon]_vars /\ WF_vars(Running)

\* The fan-out at the worker cap: as many projects as workers and one more,
\* all alike; and two projects with every retry count
FanoutLists ==
    { [i \in 1..n |-> [name |-> "a", url |-> Urls[1], key |-> "key",
                       table |-> None, enabled |-> TRUE]] :
      n \in {MAX_WORKERS, MAX_WORKERS + 1} }

InitFanout ==
    /\ \/ /\ projects \in FanoutLists
          /\ retry_attempts = 0
       \/ /\ projects \in {ps \in ProjectLists(1..2) :
                              Canonical(ps) /\ \A i \in DOMAIN ps : ps[i].enabled}
          /\ retry_attempts \in 0..MaxRetry
    /\ interval = 2
    /\ NoChannel
    /\ budget = 1
    /\ InitState

NextFanout ==
    \/ CallPingAll(TRUE)
    \/ Cycle

SpecFanout == InitFanout /\ [][NextFanout]_vars

\* A project that passes __post_init__
WellFormed(p) == PostInitErrors(<<p>>, 1) = <<>>

\* Project lists in which at most one project has been left malformed; the
\* name varies in the lists of one project
ShapedLists(lens) ==
    UNION { { [i \in 1..n |-> ShapedProject(i, IF i = 1 THEN m ELSE "b", f[i][1], f[i][2])] :
              f \in { g \in [1..n -> Shapes \X BOOLEAN] :
                         Cardinality({i \in 1..n : g[i][1] # "ok"}) <= 1 },
              m \in IF n = 1 THEN {"a", "No projects"} ELSE {"a"} } : n \in lens }

\* The interval of the long-interval scenario, 200 hours
LongInterval == 200 * 60

\* Construction and one run_once: the lists of up to MaxTargets projects with
\* at most one malformed under a short interval, the well-formed lists among
\* them under a long interval too, or one or two well-formed projects under every notification
\* configuration
InitConfig ==
    /\ \/ /\ projects \in ShapedLists(0..MaxTargets)
          /\ interval \in {2, LongInterval}
          /\ interval = LongInterval => \A i \in DOMAIN projects : WellFormed(projects[i])
          /\ webhook_url = None
          /\ telegram = Telegram(None, None)
       \/ /\ projects \in {ps \in ProjectLists(1..2) :
                              Canonical(ps) /\ \A i \in DOMAIN ps : ps[i].enabled}
          /\ interval = 2
          /\ webhook_url \in {None, "hook"}
          /\ telegram \in {NoTelegram, Telegram(None, None), Telegram("token", None),
                           Telegram("token", "chat")}
    /\ retry_attempts \in 1..MaxRetry
    /\ Len(projects) > 1 => retry_attempts = 1
    /\ has_notifier = FALSE
    /\ budget = 1
    /\ pc = "new"
    /\ InitKeeper

NextConfig ==
    \/ Construct
    \/ CallRunOnce
    \/ Cycle

SpecConfig == InitConfig /\ [][NextConfig]_vars

\* The same configurations without a channel, with validate() called before
\* the keeper is constructed and between its calls
InitValidate ==
    /\ InitConfig
    /\ webhook_url = None
    /\ telegram = Telegram(None, None)

NextValidate ==
    \/ CallValidate
    \/ NextConfig

SpecValidate == InitValidate /\ [][NextValidate]_vars

\* Projects constructed from every combination of arguments and collected into
\* the list of a configuration
InitProject ==
    /\ projects = <<>>
    /\ retry_attempts = 1
    /\ interval = 2
    /\ NoChannel
    /\ budget = 0
    /\ InitState

NextProject == \E a \in ProjectArgs : NewProjectConfig(a)

SpecProject == InitProject /\ [][NextProject]_vars

\* The one-shot run of both entry points, on nothing configured and on one or
\* two well-formed projects; the configuration as Config declares it, without
\* the bot fields, and one that carries them
InitEntry ==
    /\ projects \in {ps \in ProjectLists(0..2) : Canonical(ps)}
    /\ retry_attempts \in 1..MaxRetry
    /\ Len(projects) > 1 => retry_attempts = 1
    /\ interval = 2
    /\ webhook_url \in {None, "hook"}
    /\ telegram \in {NoTelegram, Telegram(None, None)}
    /\ has_notifier = FALSE
    /\ budget = 1
    /\ pc = "new"
    /\ InitKeeper

NextEntry ==
    \/ \E e \in Entries : EntryStart(e)
    \/ CreateScheduler
    \/ Cycle

SpecEntry == InitEntry /\ [][NextEntry]_vars

\* The commands of the command line other than run, each on the configuration
\* it has just loaded
InitCli == InitEntry

NextCli ==
    \/ \E opt \in ProjectOptions : CliPing(opt)
    \/ CliPingCreate
    \/ CliStatus
    \/ CliValidate
    \/ Cycle

SpecCli == InitCli /\ [][NextCli]_vars

\* ================================================================== claims
Finished(i) == pr[i].pc \in {"done", "collected"}
FailedAfter(i) ==
    /\ ~pr[i].result.success
    /\ pr[i].result.message.text = "Failed after attempts"
    /\ pr[i].result.message.n = retry_attempts

\* C1: a target with no probe table, R >= 1, no strategy call ever succeeding:
\* _ping_project returns success=false with the message "Failed after R
\* attempts", after exactly R attempts and exactly R-1 retry delays.
C1_ExhaustedRetries ==
    \A i \in Targets :
        (Finished(i) /\ projects[i].table = None /\ retry_attempts >= 1 /\ ~pr[i].anyok)
        => /\ FailedAfter(i)
           /\ pr[i].tries = retry_attempts
           /\ pr[i].sleeps = retry_attempts - 1

C1_Witness ==
    \E i \in Targets :
        /\ Finished(i) /\ projects[i].table = None /\ retry_attempts >= 2
        /\ ~pr[i].anyok
        /\ pr[i].calls = <<"list_users", "get_session", "rest_get">>
        /\ pr[i].sleeps = retry_attempts - 1

\* C2: a target with a probe table whose query succeeds on the first attempt:
\* success=true, the message names the table, one attempt, no retry delay.
C2_TableFirstAttempt ==
    \A i \in Targets :
        (Finished(i) /\ projects[i].table # None /\ pr[i].anyok /\ pr[i].attempt = 0)
        => /\ pr[i].result.success
           /\ pr[i].result.message.text = "Successfully queried table"
           /\ pr[i].result.message.table = projects[i].table
           /\ pr[i].calls = <<"table">>
           /\ pr[i].tries = 1
           /\ pr[i].sleeps = 0

C2_Witness ==
    \E i \in Targets :
        /\ Finished(i) /\ projects[i].table = "health" /\ pr[i].anyok
        /\ pr[i].attempt = 0 /\ retry_attempts >= 2
        /\ pr[i].result.success

\* C3: a retry count of 0 is treated as at least one attempt: every probe that
\* has returned has run the strategy chain at least once.
C3_AtLeastOneAttempt ==
    \A i \in Targets : Finished(i) => pr[i].tries >= 1

\* C4: a termination signal handled at any time during run_daemon stops the
\* scheduler: once a signal has been handled the state is Stopped and stays so.
C4_SignalStops ==
    (signals > 0 /\ caller \in {"run_daemon", "immediate", "scheduled"}) => ~running

EnabledCount == Cardinality(GetEnabledProjects)

RanToOutcome(i) ==
    /\ pr[i].pc = "collected"
    /\ \/ pr[i].result.success
       \/ /\ FailedAfter(i)
          /\ pr[i].tries = retry_attempts
          /\ pr[i].sleeps = retry_attempts - 1

\* C5: a termination signal handled while a cycle is in flight does not cut the
\* cycle short: when the cycle reaches its end every enabled target's probe has
\* run to its outcome (a success, or a failure after all R attempts and R-1
\* delays), the summary returned counts all of them, and run_daemon returns
\* only from the test of its wait loop, with no cycle in flight.
C5_CycleNotCutShort ==
    sigcycle =>
        /\ (pc = "notify" \/ ~CycleInFlight) =>
              /\ \A i \in GetEnabledProjects : RanToOutcome(i)
              /\ Len(results) = EnabledCount
        /\ (~CycleInFlight /\ retval.kind = "run_once") =>
              /\ retval.summary = Summary(results)
              /\ retval.summary[1] + retval.summary[2] = EnabledCount
        /\ CycleInFlight => retval.kind # "run_daemon"

C5_Witness ==
    /\ sigcycle /\ ~CycleInFlight /\ retval.kind = "run_once"
    /\ caller = "scheduled"
    /\ \E i \in Targets : pr[i].sleeps >= 1 /\ ~pr[i].result.success /\ pr[i].pc = "collected"

\* C6: in daemon mode only the signal handler stops the scheduler: as long as no
\* signal has been handled the wait loop keeps running and run_daemon has not
\* returned.
C6_StopOnlyBySignal ==
    signals = 0 =>
        /\ retval.kind # "run_daemon"
        /\ (pc \in {"loop_test", "run_pending", "poll_sleep"}
            \/ (CycleInFlight /\ caller = "scheduled")) => running

C6_Witness ==
    /\ retval.kind = "run_daemon" /\ pc = "idle"
    /\ signals > 0 /\ cycles >= 2

CountIn(res, r) == Cardinality({k \in DOMAIN res : res[k] = r})

\* C7: the fan-out over N > 1 enabled targets ends with exactly N outcomes, one
\* for each target, whatever the outcomes are and in whatever order they came.
C7_OneOutcomePerTarget ==
    ((pc = "notify" \/ (pc = "idle" /\ retval.kind # None)) /\ EnabledCount > 1)
    => /\ Len(results) = EnabledCount
       /\ \A i \in GetEnabledProjects :
             /\ pr[i].pc = "collected"
             /\ pr[i].result.project_name = projects[i].name
             /\ CountIn(results, pr[i].result) =
                   Cardinality({j \in GetEnabledProjects : pr[j].result = pr[i].result})
       /\ retval.kind = "ping_all" => retval.results = results

C7_Witness ==
    /\ pc = "idle" /\ retval.kind = "ping_all" /\ parallel
    /\ Len(projects) = 2 /\ EnabledCount = 2
    /\ pr[1].result.success /\ ~pr[2].result.success
    /\ retval.results = <<pr[2].result, pr[1].result>>

C9_WorkerCap ==
    /\ Cardinality(InFlight) <= Min(EnabledCount, MAX_WORKERS)
    /\ EnabledCount = 1 =>
          /\ pool = 0
          /\ \A i \in Targets : pr[i].thread # "pool"

C9_Witness ==
    /\ Cardinality(InFlight) = MAX_WORKERS
    /\ Queued # {}

NoClientCreated == \A n \in AllNames : created[n] = 0 /\ clients[n] = NoClient

\* C10: with an empty target list validate() reports the 'No projects' error,
\* run_once returns (0, 0), ping_all returns [], and no client is created, no
\* probe issued and no notification dispatched.
C10_EmptyTargetList ==
    Len(projects) = 0 =>
        /\ AnyNoProjects(Validate)
        /\ retval.kind = "run_once" => retval.summary = <<0, 0>>
        /\ retval.kind = "ping_all" => retval.results = <<>>
        /\ NoClientCreated
        /\ sent = <<>>
        /\ results = <<>>
        /\ pc = "idle"

C10_Witness ==
    /\ Len(projects) = 0 /\ has_notifier
    /\ retval.kind = "run_once" /\ retval.summary = <<0, 0>>

\* The targets that fail the shape validation of ProjectConfig
InvalidTargets == {i \in Targets : PostInitErrors(<<projects[i]>>, 1) # <<>>}

\* C11: a configuration in which some target fails shape validation aborts the
\* run before any probe or other network activity for any target: no strategy
\* call is ever made and no probe ever produces an outcome.
C11_ShapeErrorAborts ==
    InvalidTargets # {} =>
        \A i \in Targets : pr[i].calls = <<>> /\ ~Finished(i)

NoChannelConfigured ==
    /\ ~Truthy(webhook_url)
    /\ ~(Truthy(telegram.bot_token) /\ Truthy(telegram.chat_id))

\* C15: a keeper can be constructed from any valid configuration without a
\* notification channel: construction completes without error, the keeper has
\* no notifier, and no cycle dispatches a notification.
C15_ConstructsWithoutChannel ==
    (pc # "new" /\ NoChannelConfigured /\ Len(projects) > 0 /\ InvalidTargets = {})
    => /\ pc # "raised"
       /\ ~has_notifier
       /\ sent = <<>>

SuccessCount == Cardinality({k \in DOMAIN results : results[k].success})
FailureCount == Cardinality({k \in DOMAIN results : ~results[k].success})

\* run_once has returned to its caller
CycleEnded == pc = "idle" /\ retval.kind = "run_once"

\* C13: run_once returns (successCount, failureCount): the number of outcomes
\* with success=true, the number with success=false, and together the number
\* of enabled targets.
C13_SummaryPartition ==
    CycleEnded =>
        /\ retval.summary = <<SuccessCount, FailureCount>>
        /\ retval.summary[1] + retval.summary[2] = EnabledCount

C13_Witness ==
    /\ CycleEnded /\ retry_attempts = 1 /\ Len(projects) = 2 /\ EnabledCount = 2
    /\ projects[1].table = "health" /\ pr[1].result.success
    /\ projects[2].table = None /\ ~pr[2].result.success
    /\ pr[2].calls = <<"list_users", "get_session", "rest_get">>
    /\ retval.summary = <<1, 1>>
    /\ has_notifier /\ Len(sent) = 1 /\ sent[1].outcomes = <<pr[2].result>>

\* C14: with a notification channel configured, a cycle that probed at least
\* one target dispatches exactly one notification, and only at its end: the
\* failure notification with exactly the failed outcomes when some outcome
\* failed, otherwise the success notification with all outcomes; it goes out
\* once on every configured channel.
C14_OneNotification ==
    /\ CycleInFlight => sent = <<>>
    /\ (has_notifier /\ CycleEnded /\ Len(results) >= 1) =>
          /\ Len(sent) = 1
          /\ IF FailureCount > 0
             THEN /\ sent[1].kind = "failure"
                  /\ Len(sent[1].outcomes) = FailureCount
                  /\ \A k \in DOMAIN sent[1].outcomes : ~sent[1].outcomes[k].success
                  /\ \A k \in DOMAIN results :
                        ~results[k].success =>
                            \E j \in DOMAIN sent[1].outcomes : sent[1].outcomes[j] = results[k]
             ELSE /\ sent[1].kind = "success"
                  /\ sent[1].outcomes = results
          /\ Len(sent[1].deliveries) = Len(Channels)
          /\ Len(Channels) >= 1
          /\ \A k \in DOMAIN Channels : sent[1].deliveries[k].channel = Channels[k]

C14_Witness ==
    /\ has_notifier /\ CycleEnded /\ Len(results) = 2
    /\ SuccessCount = 1 /\ FailureCount = 1
    /\ Len(sent) = 1 /\ sent[1].kind = "failure" /\ Len(sent[1].outcomes) = 1
    /\ Len(sent[1].deliveries) = 2

\* C16: a notification delivery that raises, times out or is rejected never
\* leaves the cycle: no exception reaches run_once, run_once returns the counts
\* of its outcomes and the exit code that follows from them whatever the
\* deliveries came to, and every channel sees one delivery only.
C16_DeliveryFailureContained ==
    /\ retval.kind # "raised"
    /\ (CycleEnded /\ sent # <<>>) =>
          /\ retval.summary = <<SuccessCount, FailureCount>>
          /\ retval.exit = (IF FailureCount > 0 THEN 1 ELSE 0)
          /\ \A n \in DOMAIN sent : Len(sent[n].deliveries) = Len(Channels)

C16_Witness ==
    /\ CycleEnded /\ Len(sent) = 1 /\ Len(sent[1].deliveries) = 2
    /\ sent[1].deliveries[1].status = "raised"
    /\ sent[1].deliveries[2].status = "rejected"
    /\ retval.summary = <<2, 0>> /\ retval.exit = 0

\* The strategies of a target without a probe table, in order, and the message
\* each reports when it succeeds
Strategies == <<"list_users", "get_session", "rest_get">>
StrategyTexts == <<"Successfully queried auth.users table",
                   "Successfully checked auth session",
                   "Successfully pinged REST API">>
IsPrefix(s, t) == Len(s) <= Len(t) /\ \A k \in DOMAIN s : s[k] = t[k]

\* The current attempt of target i has ended in the except branch
AttemptFailed(i) ==
    \/ pr[i].pc = "sleep"
    \/ Finished(i) /\ pr[i].result.message.text = "Failed after attempts"

\* C17: for a target without a probe table the calls of one attempt are a
\* prefix of admin listing, session check, REST GET; the attempt succeeds at
\* the first strategy that succeeds, with no later call; an attempt that got
\* its client fails only after all three were called; and each attempt counts
\* once, so a swallowed failure costs neither an attempt nor a delay.
C17_StrategyOrder ==
    \A i \in Targets :
        projects[i].table = None =>
            /\ IsPrefix(pr[i].calls, Strategies)
            /\ (Finished(i) /\ pr[i].result.success) =>
                  /\ pr[i].calls # <<>>
                  /\ pr[i].result.message.text = StrategyTexts[Len(pr[i].calls)]
            /\ (AttemptFailed(i) /\ pr[i].err # "create_client error") =>
                  pr[i].calls = Strategies
            /\ pr[i].tries >= 1 =>
                  /\ pr[i].tries = pr[i].attempt + 1
                  /\ pr[i].sleeps = pr[i].attempt

C17_Witness ==
    \E i \in Targets :
        /\ projects[i].table = None /\ retry_attempts = 2
        /\ Finished(i) /\ pr[i].result.success
        /\ pr[i].calls = Strategies
        /\ pr[i].tries = 1 /\ pr[i].sleeps = 0

C19_RestStatus ==
    \A i \in Targets :
        pr[i].rest # 0 =>
            IF pr[i].rest \in {200, 401, 403}
            THEN /\ Finished(i) /\ pr[i].result.success
                 /\ pr[i].result.message.text = "Successfully pinged REST API"
                 /\ pr[i].result.message.status = pr[i].rest
            ELSE \/ pr[i].pc = "sleep" /\ pr[i].attempt < retry_attempts - 1
                 \/ /\ Finished(i) /\ FailedAfter(i)
                    /\ pr[i].attempt = retry_attempts - 1

C19_Witness ==
    \E i \in Targets :
        /\ Finished(i) /\ pr[i].rest = 500 /\ FailedAfter(i)
        /\ pr[i].sleeps = 1 /\ retry_attempts = 2

\* The time since the current attempt of probe q began
ElapsedSinceAttempt(q) == (q.clock - q.attempt_start) * 1000

\* C20: a success outcome reports the time since the start of the attempt that
\* succeeded, a failure outcome the time since the first attempt started.
C20_ElapsedSinceAttempt ==
    \A i \in Targets :
        (Finished(i) /\ pr[i].result.timed) =>
            IF pr[i].result.success
            THEN pr[i].result.response_time_ms = ElapsedSinceAttempt(pr[i])
            ELSE pr[i].result.response_time_ms = (pr[i].clock - pr[i].start_time) * 1000

\* C22: a client is created at most once for each target name, over all
\* retries and cycles and under the concurrent fan-out.
C22_CreateOncePerName ==
    \A n \in AllNames : created[n] <= 1

\* The probes that hold a client handle and are about to call, or are calling,
\* a strategy on it
UsingClient == {i \in Targets : pr[i].pc = "chain"}

\* C23: a cached client handle is never in use by two workers at the same
\* time, whatever the names of the enabled targets.
C23_HandleNotShared ==
    \A i, j \in UsingClient : i # j => pr[i].client # pr[j].client

C21_OnlyEnabledProbed ==
    /\ \A k \in DOMAIN EnabledList :
          /\ EnabledList[k] \in Targets /\ projects[EnabledList[k]].enabled
          /\ \A l \in DOMAIN EnabledList : k < l => EnabledList[k] < EnabledList[l]
    /\ \A i \in Targets : projects[i].enabled => \E k \in DOMAIN EnabledList : EnabledList[k] = i
    /\ \A i \in Targets :
          ~projects[i].enabled =>
              /\ pr[i] = IdleProbe
              /\ \A r \in 1..Len(results) : results[r].project_name # projects[i].name
                                             \/ \E j \in Targets : /\ projects[j].enabled
                                                                    /\ projects[j].name = projects[i].name
              /\ \A n \in AllNames : clients[n] # NoClient => clients[n].url # projects[i].url

C21_Witness ==
    \E i, j \in Targets :
        /\ ~projects[i].enabled /\ projects[j].enabled
        /\ cycles >= 2
        /\ pr[j].pc = "collected" /\ pr[j].tries >= 1
        /\ clients[projects[j].name] # NoClient

\* The wait loop of run_daemon has been entered
InWaitLoop == pc \in {"loop_test", "run_pending", "poll_sleep"}

\* C24: run_daemon(run_immediately=true) runs exactly one cycle before the wait
\* loop; with run_immediately=false no cycle runs before a full interval has
\* elapsed since the start; and in both cases next_run holds the time of the
\* start-up scheduling plus the interval when the wait loop is entered.
C24_StartUp ==
    /\ (caller = "immediate" /\ (pc = "schedule" \/ InWaitLoop)) => cycles = 1
    /\ (caller = "run_daemon" /\ now < interval) => cycles = 0
    /\ (caller \in {"immediate", "run_daemon"} /\ InWaitLoop) =>
          next_run = job /\ next_run = interval

\* C27: when a termination signal has stopped the daemon, the exit code is 1 if
\* the last completed cycle had a failed target, 0 if it had none, and 0 if no
\* cycle ran.
C27_ExitReflectsLastCycle ==
    retval.kind = "run_daemon" =>
        retval.exit = IF cycles > 0 /\ \E r \in 1..Len(results) : ~results[r].success
                      THEN 1 ELSE 0

\* A cycle of the daemon completes in this step
CycleCompletes ==
    /\ caller' \in {"immediate", "scheduled"}
    /\ ~CycleInFlight'
    /\ CycleInFlight \/ cycles' = cycles + 1

\* run_pending starts a cycle in this step
ScheduledCycleBegins == pc = "run_pending" /\ cycles' = cycles + 1

\* C25: in daemon mode next_run is recomputed at each completed cycle as the
\* completion time plus the interval; no scheduled cycle begins before the job's
\* time or before the next_run in force (none is in force while it is None);
\* a cycle begins only when no cycle is in flight; and while the scheduler
\* stays running and the clock can reach the job's time, a further cycle runs.
C25_Recurrence ==
    /\ [][CycleCompletes => next_run' = now' + interval]_vars
    /\ [][ScheduledCycleBegins => now >= job /\ (next_run # -1 => now >= next_run)]_vars
    /\ [][cycles' # cycles => ~CycleInFlight /\ cycles' = cycles + 1]_vars
    /\ \A c \in 0..MaxTime :
          (InWaitLoop /\ cycles = c /\ job <= MaxTime) ~> (cycles > c \/ ~running)

C25_Witness ==
    /\ caller = "scheduled" /\ cycles >= 2 /\ running
    /\ pc = "poll_sleep" /\ next_run = now + interval /\ now >= interval

\* The one-shot run has ended on a configuration or runtime error
EntryError ==
    \/ AnyNoProjects(Validate)
    \/ retval.kind \in {"no_projects", "AttributeError", "raised"}

C28_Construction ==
    made.called =>
        IF made.args.url # <<>> /\ made.args.url[1] = "https://" /\ made.args.key # ""
        THEN /\ made.raised = ""
             /\ made.value.name = made.args.name
             /\ made.value.url = made.args.url
             /\ made.value.key = made.args.key
             /\ ~made.args.enabled.given => made.value.enabled
             /\ projects # <<>> /\ projects[Len(projects)] = made.value
        ELSE /\ made.raised \in {"URL is required", "API key is required",
                                 "URL must start with https://"}
             /\ made.value = NoProject

C28_Witness ==
    /\ made.called /\ made.raised = ""
    /\ ~made.args.enabled.given /\ made.value.enabled
    /\ made.value.url = <<"https://", "b.supabase.co">>
    /\ Len(projects) = 2
    /\ projects[1].url # projects[2].url

\* C29: validate() changes nothing of the configuration or of the keeper, and
\* every call after the first returns the list the call before it returned,
\* also when a cycle has run between the two.
C29_ValidateIdempotent ==
    [][validated'.calls = validated.calls + 1 =>
          /\ cfgVars' = cfgVars /\ keeperVars' = keeperVars
          /\ validated.calls > 0 => validated'.list = validated.list]_vars

C29_Witness ==
    /\ validated.calls = 2 /\ validated.list # <<>>
    /\ retval.kind = "run_once" /\ results # <<>>

\* The attempt of probe i that has just ended failed in create_client
CreateFailed(i) == pr[i].err = "create_client error"

\* C37: an attempt whose create_client raises is a failed attempt, retried
\* while attempts remain and reported in the failure outcome otherwise; the
\* failure stores nothing in the cache and changes no other probe; and an
\* attempt that finds no entry for its name creates the client again.
C37_CreateFailure ==
    /\ [](\A i \in Targets :
            /\ CreateFailed(i) =>
                  /\ pr[i].calls = <<>>
                  /\ \/ pr[i].pc = "sleep" /\ pr[i].attempt < retry_attempts - 1
                     \/ /\ Finished(i) /\ FailedAfter(i)
                        /\ pr[i].result.message.err = "create_client error"
                        /\ pr[i].tries = retry_attempts
            /\ created[projects[i].name] = 0 => clients[projects[i].name] = NoClient
            /\ (pr[i].pc = "client" /\ clients[projects[i].name] = NoClient) => pr[i].miss)
    /\ [][\A i \in Targets :
            (CreateFailed(i)' /\ ~CreateFailed(i)) =>
                /\ clients' = clients /\ created' = created
                /\ \A j \in Targets \ {i} : pr'[j] = pr[j]]_vars

C37_Witness ==
    \E i, j \in Targets :
        /\ cycles >= 2
        /\ pr[i].pc = "collected" /\ CreateFailed(i) /\ FailedAfter(i)
        /\ clients[projects[i].name] = NoClient
        /\ pr[j].pc = "collected" /\ pr[j].result.success

\* The lines of the log that report an outcome, in the order they were written
ResultEvents == SelectSeq(log, LAMBDA e : e.event = "result")

\* C32: every collected outcome has one log line, written when it is collected
\* and so before the next one is collected; every outcome line of a cycle comes
\* before the dispatch of the cycle's notification, and the dispatch comes
\* before the status summary.
C32_LogOrder ==
    /\ Len(ResultEvents) = Len(results)
    /\ Len(ResultEvents) = Cardinality({i \in Targets : pr[i].pc = "collected"})
    /\ \A k \in DOMAIN ResultEvents :
          /\ ResultEvents[k].project = results[k].project_name
          /\ ResultEvents[k].ok = results[k].success
    /\ \A a, b \in DOMAIN log :
          /\ (log[a].event = "notification" /\ log[b].event = "result") => b < a
          /\ (log[a].event = "status" /\ log[b].event \in {"result", "notification"}) => b < a
    /\ Len(SelectSeq(log, LAMBDA e : e.event = "notification")) = Len(sent)
    /\ (CycleEnded /\ ~AnyNoProjects(Validate)) =>
          /\ log # <<>> /\ log[Len(log)].event = "status"
          /\ Len(SelectSeq(log, LAMBDA e : e.event = "status")) = 1
          /\ Len(ResultEvents) = EnabledCount

C32_Witness ==
    /\ CycleEnded /\ Len(results) = 2 /\ Len(sent) = 1
    /\ Len(log) = 4
    /\ log[3].event = "notification" /\ log[4].event = "status"
    /\ log[1].project # log[2].project

\* Projects are configured and none of them is enabled
NoneEnabled == Len(projects) >= 1 /\ \A i \in Targets : ~projects[i].enabled

\* C36: with projects configured and none enabled, run_once passes the
\* validation, warns that nothing is enabled, starts no probe and creates no
\* client, returns (0, 0) after printing the status, and dispatches no
\* notification, also when a channel is configured.
C36_NoneEnabled ==
    (NoneEnabled /\ caller = "run_once") =>
        /\ ~AnyNoProjects(Validate)
        /\ pc = "idle"
        /\ retval.kind = "run_once" /\ retval.summary = <<0, 0>>
        /\ log = <<Event("no_enabled", None, FALSE), Event("status", None, TRUE)>>
        /\ sent = <<>>
        /\ results = <<>>
        /\ \A i \in Targets : pr[i] = IdleProbe
        /\ \A n \in AllNames : created[n] = 0

C36_Witness ==
    /\ NoneEnabled /\ Len(projects) = 2
    /\ has_notifier /\ webhook_url = "hook"
    /\ caller = "run_once" /\ retval.summary = <<0, 0>>
    /\ Len(log) = 2

\* C35: the client a probe calls its strategies on was created for the URL
\* and the key of the probe's own target, for every list of targets, lists
\* with two enabled targets of one name included.
C35_OwnEndpoint ==
    \A i \in Targets :
        pr[i].client # NoClient =>
            /\ pr[i].client.url = projects[i].url
            /\ pr[i].client.key = projects[i].key

\* Probe i is inside an attempt, or between two attempts
Attempting(i) == pr[i].pc \in {"client", "chain", "sleep"}

\* C31: attempt N+1 of a target starts only from the failure of attempt N and
\* after a whole retry delay; every attempt starts with no strategy called; and
\* no delay follows a successful attempt or the last failed attempt.
C31_RetryOrder ==
    /\ [](\A i \in Targets :
            /\ Attempting(i) =>
                  /\ pr[i].tries = pr[i].attempt + 1
                  /\ pr[i].sleeps = pr[i].attempt
                  /\ pr[i].attempt_start = pr[i].start_time + pr[i].attempt * retry_delay
            /\ pr[i].pc = "client" => pr[i].calls = <<>> /\ pr[i].err = ""
            /\ pr[i].pc = "sleep" => pr[i].err # "" /\ pr[i].attempt < retry_attempts - 1
            /\ (Finished(i) /\ pr[i].tries > 0) =>
                  /\ pr[i].sleeps = pr[i].tries - 1
                  /\ pr[i].clock = pr[i].start_time + pr[i].sleeps * retry_delay
                  /\ ~pr[i].result.success => pr[i].tries = retry_attempts)
    /\ [][\A i \in Targets :
            (Attempting(i) /\ Attempting(i)' /\ pr'[i].attempt # pr[i].attempt) =>
                /\ pr[i].pc = "sleep" /\ pr[i].err # ""
                /\ pr'[i].attempt = pr[i].attempt + 1
                /\ pr'[i].clock = pr[i].clock + retry_delay
                /\ pr'[i].pc = "client"]_vars

C31_Witness ==
    \E i \in Targets :
        /\ retry_attempts = 2 /\ Finished(i) /\ pr[i].result.success
        /\ pr[i].attempt = 1 /\ pr[i].sleeps = 1
        /\ pr[i].clock = pr[i].start_time + retry_delay
        /\ projects[i].table = None /\ Len(pr[i].calls) >= 2

\* C34: once a termination signal has cleared the flag in the wait loop no cycle
\* is started: a scheduled cycle that is in flight while the flag is down was
\* already in flight when the signal was handled.
C34_NoCycleAfterStop ==
    (signals > 0 /\ ~running /\ caller = "scheduled" /\ CycleInFlight) => sigcycle

\* C33: the target registry is read-only after load: no step of validate,
\* ping_all, run_once, get_status or of the commands that drive them changes
\* the list of projects or a field of a project
C33_RegistryReadOnly == [][projects' = projects]_vars

====
